---- MODULE Spec2Model ----
(***************************************************************************)
(* Model of the webhook consumer                                           *)
(* (services/new-architecture/webhook-consumer/src/main.rs): the ingestion *)
(* loop of main() and the per-event coordinator handle_event(), together   *)
(* with the collaborators it talks to: the Kafka log and its committed     *)
(* offset, the data service that answers the enrichment GET                *)
(* (services/new-architecture/data-service), the api service that inserts  *)
(* the payments rows (services/new-architecture/api-service) and the       *)
(* merchant endpoint. The old architecture (services/old-architecture) is  *)
(* modelled beside it as a program of its own.                             *)
(*                                                                         *)
(* Fields of DomainEvent that the consumer never reads (id, merchant_id,   *)
(* payload) and the fields of ProcessedEvent that are written and never    *)
(* read (merchant_webhook_id, a random value, and last_retry_at, the wall  *)
(* clock) are left out of the records.                                     *)
(***************************************************************************)
EXTENDS FiniteSets, Integers, Naturals, Sequences, TLC

----------------------------------------------------------------------------
(* Bounds of the model *)

MaxLog == 2          \* longest log drawn by Init
MaxCrashes == 1      \* process crashes in one behaviour
MaxPayments == 3     \* payments created in the old service in one behaviour

----------------------------------------------------------------------------
(* Values *)

\* object_id values carried by events: "P1" is not a UUID string, "AB12"
\* stands for a UUID written in upper case and "ab12?v=1" for the same UUID
\* in lower case followed by a URL query.
ObjectIds == {"P1", "AB12", "ab12?v=1"}

EventTypes == {"payment.created", "payment.succeeded"}

\* Strings Uuid::parse_str accepts, with the UUID each of them denotes as
\* serde serialises it (lower-case hyphenated form).
UuidStrings == {"AB12", "ab12", "cd34"}

CanonicalUuid(s) == IF s = "AB12" THEN "ab12" ELSE s

\* Uuid::parse_str
ParseUuid(s) ==
    IF s \in UuidStrings THEN [ok |-> TRUE, uuid |-> CanonicalUuid(s)]
                         ELSE [ok |-> FALSE, uuid |-> ""]

\* The path segment after /payload/ of the URL that
\* format!("{}/payload/{}", data_service_url, event.object_id) parses to:
\* what follows a '?' is the query of the URL, not part of its path.
UrlPath(object_id) == IF object_id = "ab12?v=1" THEN "ab12" ELSE object_id

\* Values Uuid::new_v4() may return
RandomUuids == {"ab12", "cd34"}

\* Values of the amount field of a CreatePaymentRequest
Amounts == {100}

\* Records of the topic: a well-formed SequinMessage, a payload that does
\* not deserialize, a message without payload.
EventRecords ==
    {[kind |-> "event", event_type |-> t, object_id |-> o] :
        t \in EventTypes, o \in ObjectIds}

Malformed == [kind |-> "malformed", event_type |-> "", object_id |-> ""]

NoPayload == [kind |-> "nopayload", event_type |-> "", object_id |-> ""]

Records == EventRecords \cup {Malformed, NoPayload}

Logs == UNION {[1..n -> Records] : n \in 1..MaxLog}

\* What one HTTP exchange with the merchant endpoint can end in: a transport
\* error of send() (timeout after 5 s, connection error) or a final status.
SendErrors == {"timeout", "connect"}

Statuses == {200, 304, 404, 500}

Responses ==
    {[err |-> e, status |-> 0] : e \in SendErrors}
        \cup {[err |-> "", status |-> st] : st \in Statuses}

\* What the query of the data service's handler can do: run, or fail.
DbOutcomes == {"ok", "dberr"}

\* What the consumer's GET can end in: the answer of the data service is
\* received, or the 5 s timeout passes first.
FetchOutcomes == {"answer", "timeout"}

\* The row of the payments table as the data service serialises it: id is a
\* Uuid, written in its lower-case hyphenated form.
PaymentPayload(id, amt) == [id |-> CanonicalUuid(id), amount |-> amt]

\* A response body that is plain text, not JSON
TextBody == [id |-> "", amount |-> 0]

\* The payments table without rows
NoRows == [k \in {} |-> 0]

\* GetPaymentPayload, were the not-found answer sent as a JSON body
GetPaymentPayload_jsonerr(path, db, rows) ==
    IF ~ParseUuid(path).ok
    THEN [status |-> 400, json |-> FALSE, body |-> TextBody]
    ELSE IF db = "dberr"
    THEN [status |-> 500, json |-> FALSE, body |-> TextBody]
    ELSE IF ParseUuid(path).uuid \notin DOMAIN rows
    THEN [status |-> 404, json |-> TRUE, body |-> TextBody]
    ELSE [status |-> 200, json |-> TRUE,
          body |-> PaymentPayload(ParseUuid(path).uuid,
                                  rows[ParseUuid(path).uuid])]

\* GET /payload/:payment_id of the data service. Path<Uuid> rejects a path
\* that is no UUID with 400 and a text body before the handler runs;
\* get_payment_payload answers the row as JSON with status 200, a text body
\* with 404 when there is no row and with 500 when the query fails.
GetPaymentPayload(path, db, rows) ==
    IF ~ParseUuid(path).ok
    THEN [status |-> 400, json |-> FALSE, body |-> TextBody]
    ELSE IF db = "dberr"
    THEN [status |-> 500, json |-> FALSE, body |-> TextBody]
    ELSE IF ParseUuid(path).uuid \notin DOMAIN rows
    THEN [status |-> 404, json |-> FALSE, body |-> TextBody]
    ELSE [status |-> 200, json |-> TRUE,
          body |-> PaymentPayload(ParseUuid(path).uuid,
                                  rows[ParseUuid(path).uuid])]

\* The GET has not been answered
NoReply == [status |-> 0, json |-> FALSE, body |-> TextBody]

\* client.get(url).timeout(5 s).send().await?.json::<Value>().await?, given
\* the answer a of the data service: an error of send() on a timeout;
\* otherwise the body parsed as JSON, whatever the status (there is no
\* error_for_status here)
FetchJson(e, a) ==
    IF e = "timeout"
    THEN [ok |-> FALSE, status |-> 0, payload |-> TextBody]
    ELSE [ok |-> a.json, status |-> a.status, payload |-> a.body]

\* No answer of the endpoint is awaited
NoResponse == [err |-> "", status |-> 0]

NoBody == [event_id |-> "", event_type |-> "", payment |-> TextBody]

EmptyJournal == [k \in {} |-> [event_id |-> "", retries |-> 0]]

\* JournalInsert, were the map rebuilt around the new entry alone
JournalInsert_clear(j, k, v) == [q \in {k} |-> v]

\* HashMap::insert
JournalInsert(j, k, v) ==
    [q \in (DOMAIN j) \cup {k} |-> IF q = k THEN v ELSE j[q]]

\* JournalHas, were an entry to count only once it records a retry
JournalHas_retried(j, k) == k \in DOMAIN j /\ j[k].retries > 0

\* HashMap::get(..).is_some()
JournalHas(j, k) == k \in DOMAIN j

\* format!("evt_{}", event.object_id)
EventId(object_id) == "evt_" \o object_id

max_retries == 3

\* BackoffMs, were the exponent the retry count itself
BackoffMs_off(retries) == 1000 * (2 ^ retries)

\* 1000u64 * 2u64.pow((retries - 1) as u32); retries is below max_retries
\* here, so the product stays far below 2^64
BackoffMs(retries) == 1000 * (2 ^ (retries - 1))

\* Response::error_for_status: an error for 4xx and 5xx, the response
\* otherwise.
IsErrorStatus(s) == s >= 400 /\ s <= 599

\* SendWebhook, were error_for_status() left out: only transport errors fail
SendWebhook_nostatus(resp) ==
    IF resp.err # "" THEN [ok |-> FALSE, err |-> resp.err]
    ELSE [ok |-> TRUE, err |-> ""]

\* send_webhook: Ok(()) or the error, as the kind of failure
SendWebhook(resp) ==
    IF resp.err # "" THEN [ok |-> FALSE, err |-> resp.err]
    ELSE IF IsErrorStatus(resp.status) THEN [ok |-> FALSE, err |-> "status"]
    ELSE [ok |-> TRUE, err |-> ""]

----------------------------------------------------------------------------
(* State *)

VARIABLES
    log,        \* the topic webhook-events, a sequence of records
    committed,  \* the group's committed offset (records before it are done)
    offset,     \* the consumer's position: records received by this process
    pc,         \* where main() is
    journal,    \* the in-memory HashMap<String, ProcessedEvent>
    loc,        \* the locals of the handle_event call in progress
    store,      \* the rows of the payments table, amount by id
    reply,      \* the data service's answer to the GET of the call in
                \* progress (NoReply: none, or not answered yet)
    crashes,    \* crashes so far
    obs,        \* what the current (or, between calls, the last) call of
                \* handle_event in this process has done, and its result:
                \*   deliveredBefore, failedBefore: at the call, its journal
                \*     key had been delivered / had permanently failed
                \*   gets, posts: the GETs and POSTs it has made
                \*   refused: the POSTs whose answer it has read and that
                \*     met a transport error or a 4xx/5xx status
                \*   ids: the event_id values its POST bodies carried
                \*   sleeps: the backoff sleeps it has started, in ms
                \*   body: the body of its last POST
                \*   getStatus: the status its enrichment GET was answered
                \*     with (0: none yet, or a transport error)
                \*   postStatus: the status of the last answer to a POST
                \*     it has read (0: none yet, or a transport error)
    sentIds,    \* per log position, the event_id values POSTed for it
    outcome,    \* per log position, the results handle_event returned for it
    written,    \* journal keys ever written, over all incarnations
    accepted,   \* journal keys a POST of which the endpoint answered with
                \* a status that is neither 4xx nor 5xx
    deliveredIds, \* journal keys delivered by this process
    failedIds,  \* journal keys whose handling permanently failed in this process
    \* The old architecture (services/old-architecture), a program of its own:
    channel,    \* the mpsc channel between create_payment and webhook_worker
    worker,     \* where webhook_worker is
    current,    \* the WebhookEvent the worker holds (0: none)
    inflight,   \* the outcome of the worker's POST that it has yet to read
    created,    \* payments created so far; the n-th queues webhook event n
    oldCrashes, \* crashes of the old service so far
    attempts,   \* per webhook event, the POSTs made for it
    oldDelivered, \* webhook events a POST of which the endpoint answered
                \* with a status that is neither 4xx nor 5xx
    failedOnce, \* webhook events a POST of which failed
    dropped     \* webhook events that were in the channel or held by the
                \* worker, its match not yet reached, when the process died

newvars == <<log, committed, offset, pc, journal, loc, store, reply, crashes,
             obs, sentIds, outcome, written, accepted, deliveredIds,
             failedIds>>

oldvars == <<channel, worker, current, inflight, created, oldCrashes, attempts,
             oldDelivered, failedOnce, dropped>>

vars == <<newvars, oldvars>>

NoLoc ==
    [pos |-> 0, event |-> Malformed, event_id |-> "",
     payload |-> TextBody,
     event_uuid |-> "", retries |-> 0, last_error |-> "", backoff_ms |-> 0,
     pending |-> NoResponse]

NoObs ==
    [pos |-> 0, event_id |-> "", result |-> "none",
     deliveredBefore |-> FALSE, failedBefore |-> FALSE, gets |-> 0, posts |-> 0,
     refused |-> 0, ids |-> {}, sleeps |-> << >>, body |-> NoBody,
     postStatus |-> 0, getStatus |-> 0]

Positions == 1..MaxLog

WebhookEvents == 1..MaxPayments

\* The old service just started, nothing created yet
OldStart ==
    /\ channel = << >>
    /\ worker = "idle"
    /\ current = 0
    /\ inflight = NoResponse
    /\ created = 0
    /\ oldCrashes = 0
    /\ attempts = [e \in WebhookEvents |-> 0]
    /\ oldDelivered = {}
    /\ failedOnce = {}
    /\ dropped = {}

Init ==
    /\ log \in Logs
    /\ committed = 0
    /\ offset = 0
    /\ pc = "recv"
    /\ journal = EmptyJournal
    /\ loc = NoLoc
    /\ store = NoRows
    /\ reply = NoReply
    /\ crashes = 0
    /\ obs = NoObs
    /\ sentIds = [p \in Positions |-> {}]
    /\ outcome = [p \in Positions |-> {}]
    /\ written = {}
    /\ accepted = {}
    /\ deliveredIds = {}
    /\ failedIds = {}
    /\ OldStart

----------------------------------------------------------------------------
(* main(): the ingestion loop *)

\* consumer.recv() returns Err: log it, sleep 100 ms
RecvError ==
    /\ pc = "recv"
    /\ pc' = "errsleep"
    /\ UNCHANGED <<log, committed, offset, journal, loc, store, crashes,
                   obs, sentIds, outcome,
                   written, accepted, deliveredIds, failedIds>>
    /\ UNCHANGED <<reply, oldvars>>

ErrSleepDone ==
    /\ pc = "errsleep"
    /\ pc' = "recv"
    /\ UNCHANGED <<log, committed, offset, journal, loc, store, crashes,
                   obs, sentIds, outcome,
                   written, accepted, deliveredIds, failedIds>>
    /\ UNCHANGED <<reply, oldvars>>

\* consumer.recv() returns a message without payload: nothing is done
RecvNoPayload ==
    /\ pc = "recv"
    /\ offset < Len(log)
    /\ log[offset + 1].kind = "nopayload"
    /\ offset' = offset + 1
    /\ UNCHANGED <<log, committed, pc, journal, loc, store, crashes,
                   obs, sentIds, outcome, written, accepted,
                   deliveredIds, failedIds>>
    /\ UNCHANGED <<reply, oldvars>>

\* RecvMalformed, were the decode error to end the loop
RecvMalformed_exit ==
    /\ pc = "recv"
    /\ offset < Len(log)
    /\ log[offset + 1].kind = "malformed"
    /\ offset' = offset + 1
    /\ pc' = "exited"
    /\ UNCHANGED <<log, committed, journal, loc, store, crashes,
                   obs, sentIds, outcome, written, accepted,
                   deliveredIds, failedIds>>
    /\ UNCHANGED <<reply, oldvars>>

\* consumer.recv() returns a payload serde_json cannot decode: log, go on
RecvMalformed ==
    /\ pc = "recv"
    /\ offset < Len(log)
    /\ log[offset + 1].kind = "malformed"
    /\ offset' = offset + 1
    /\ UNCHANGED <<log, committed, pc, journal, loc, store, crashes,
                   obs, sentIds, outcome, written, accepted,
                   deliveredIds, failedIds>>
    /\ UNCHANGED <<reply, oldvars>>

\* RecvEvent, were handle_event spawned as a task of its own, so that main()
\* receives the next record while a call sleeps
RecvEvent_spawned ==
    /\ pc \in {"recv", "sleep"}
    /\ offset < Len(log)
    /\ log[offset + 1].kind = "event"
    /\ offset' = offset + 1
    /\ loc' = [NoLoc EXCEPT !.pos = offset + 1,
                            !.event = log[offset + 1],
                            !.event_id = EventId(log[offset + 1].object_id)]
    /\ obs' = [NoObs EXCEPT
                 !.pos = offset + 1,
                 !.event_id = "evt_" \o log[offset + 1].object_id,
                 !.result = "running",
                 !.deliveredBefore =
                     ("evt_" \o log[offset + 1].object_id) \in deliveredIds,
                 !.failedBefore =
                     ("evt_" \o log[offset + 1].object_id) \in failedIds]
    /\ pc' = "check"
    /\ UNCHANGED <<log, committed, journal, store, crashes, sentIds,
                   outcome, written, accepted, deliveredIds, failedIds>>
    /\ UNCHANGED <<reply, oldvars>>

\* consumer.recv() returns a SequinMessage: derive event_id, call handle_event
RecvEvent ==
    /\ pc = "recv"
    /\ offset < Len(log)
    /\ log[offset + 1].kind = "event"
    /\ offset' = offset + 1
    /\ loc' = [NoLoc EXCEPT !.pos = offset + 1,
                            !.event = log[offset + 1],
                            !.event_id = EventId(log[offset + 1].object_id)]
    /\ obs' = [NoObs EXCEPT
                 !.pos = offset + 1,
                 !.event_id = "evt_" \o log[offset + 1].object_id,
                 !.result = "running",
                 !.deliveredBefore =
                     ("evt_" \o log[offset + 1].object_id) \in deliveredIds,
                 !.failedBefore =
                     ("evt_" \o log[offset + 1].object_id) \in failedIds]
    /\ pc' = "check"
    /\ UNCHANGED <<log, committed, journal, store, crashes, sentIds,
                   outcome, written, accepted, deliveredIds, failedIds>>
    /\ UNCHANGED <<reply, oldvars>>

\* Return, were main() to leave its loop on an Err of handle_event
Return_stop(result, o) ==
    /\ obs' = [o EXCEPT !.result = result]
    /\ outcome' = [outcome EXCEPT ![loc.pos] = @ \cup {result}]
    /\ loc' = NoLoc
    /\ pc' = IF result = "Ok" THEN "recv" ELSE "exited"

\* handle_event returns to main(), which logs the result and loops
Return(result, o) ==
    /\ obs' = [o EXCEPT !.result = result]
    /\ outcome' = [outcome EXCEPT ![loc.pos] = @ \cup {result}]
    /\ loc' = NoLoc
    /\ pc' = "recv"

----------------------------------------------------------------------------
(* handle_event(): the coordinator of one event *)

\* Step 1: an entry in the journal ends the call with Ok(())
HandleCheck ==
    /\ pc = "check"
    /\ IF JournalHas(journal, loc.event_id)
       THEN Return("Ok", obs)
       ELSE /\ pc' = "fetch"
            /\ UNCHANGED <<loc, obs, outcome>>
    /\ UNCHANGED <<log, committed, offset, journal, store, crashes,
                   sentIds, written, accepted, deliveredIds, failedIds>>
    /\ UNCHANGED <<reply, oldvars>>

\* Uuid::parse_str(&event.object_id).unwrap_or_else(|_| Uuid::new_v4())
EventUuid(object_id, fresh) ==
    IF ParseUuid(object_id).ok THEN ParseUuid(object_id).uuid ELSE fresh

\* Step 2 up to its awaits: GET {data_service_url}/payload/{object_id} is
\* sent; the call has yet to read the outcome.
FetchPayload ==
    /\ pc = "fetch"
    /\ obs' = [obs EXCEPT !.gets = @ + 1]
    /\ reply' = NoReply
    /\ pc' = "getting"
    /\ UNCHANGED <<log, committed, offset, journal, loc, store, crashes,
                   sentIds, outcome, written, accepted, deliveredIds,
                   failedIds>>
    /\ UNCHANGED oldvars

\* The data service handles the GET: the path is extracted, the SELECT runs
\* on the table as it is now, the answer is sent.
ServePayload ==
    /\ pc = "getting"
    /\ reply = NoReply
    /\ \E db \in DbOutcomes :
         reply' = GetPaymentPayload(UrlPath(loc.event.object_id), db, store)
    /\ UNCHANGED <<log, committed, offset, pc, journal, loc, store, crashes,
                   obs, sentIds, outcome, written, accepted, deliveredIds,
                   failedIds>>
    /\ UNCHANGED oldvars

\* Step 2, the rest: send() and json() return, with the answer of the data
\* service or, the 5 s over, with a timeout; an error of either ends the
\* call through `?`. Then the locals of step 3 are set up.
FetchAnswered ==
    /\ pc = "getting"
    /\ \E e \in FetchOutcomes, u \in RandomUuids :
         /\ e = "answer" => reply # NoReply
         /\ LET r == FetchJson(e, reply)
                o == [obs EXCEPT !.getStatus = r.status] IN
            IF r.ok
            THEN /\ loc' = [loc EXCEPT
                       !.payload = r.payload,
                       !.event_uuid = EventUuid(loc.event.object_id, u),
                       !.retries = 0]
                 /\ obs' = o
                 /\ pc' = "post"
                 /\ UNCHANGED outcome
            ELSE Return("EnrichError", o)
    /\ reply' = NoReply
    /\ UNCHANGED <<log, committed, offset, journal, store, crashes,
                   sentIds, written, accepted, deliveredIds, failedIds>>
    /\ UNCHANGED oldvars

\* Body, were the UUID drawn anew in every turn of the loop
Body_redrawn(l) ==
    [event_id |-> IF l.retries = 0 THEN l.event_uuid ELSE "r3",
     event_type |-> l.event.event_type,
     payment |-> l.payload]

\* serde_json::json!({"event_id": .., "event_type": .., "payment": ..})
Body(l) ==
    [event_id |-> l.event_uuid, event_type |-> l.event.event_type,
     payment |-> l.payload]

\* BudgetExhausted, were the budget never looked at
BudgetExhausted_never(retries) == FALSE

\* BudgetExhausted, were the comparison strict
BudgetExhausted_strict(retries) == retries > max_retries

\* if retries >= max_retries
BudgetExhausted(retries) == retries >= max_retries

\* ProcessedEvent, were the entry to record no retries at all
ProcessedEvent_zero(l) == [event_id |-> l.event_id, retries |-> 0]

\* ProcessedEvent { event_id, merchant_webhook_id, retries, last_retry_at }:
\* `retries` is the local counter, the number of failed attempts so far
ProcessedEvent(l) == [event_id |-> l.event_id, retries |-> l.retries]

\* Step 3, a turn of the loop up to the await of send_webhook: the body is
\* POSTed to {merchant_url}/webhooks; the exchange ends in an answer of the
\* endpoint or a transport error, which the call has yet to read.
PostWebhook ==
    /\ pc = "post"
    /\ \E resp \in Responses :
         LET body == Body(loc) IN
         /\ loc' = [loc EXCEPT !.pending = resp]
         /\ obs' = [obs EXCEPT !.posts = @ + 1,
                               !.ids = @ \cup {body.event_id},
                               !.body = body]
         /\ sentIds' = [sentIds EXCEPT ![loc.pos] = @ \cup {body.event_id}]
         /\ accepted' = IF resp.err = "" /\ resp.status \notin 400..599
                        THEN accepted \cup {loc.event_id} ELSE accepted
    /\ pc' = "await"
    /\ UNCHANGED <<log, committed, offset, journal, store, crashes, outcome,
                   written, deliveredIds, failedIds>>
    /\ UNCHANGED <<reply, oldvars>>

\* Step 3, the rest of the turn: send_webhook returns; on Ok insert the
\* journal entry and return, on Err count the retry and either give up or
\* back off.
PostAnswered ==
    /\ pc = "await"
    /\ LET resp == loc.pending
           r == SendWebhook(resp)
           o == [obs EXCEPT !.refused =
                                IF resp.err # "" \/ resp.status \in 400..599
                                THEN @ + 1 ELSE @,
                            !.postStatus = resp.status]
           retries == loc.retries + 1
       IN
       IF r.ok
       THEN /\ journal' = JournalInsert(journal, loc.event_id,
                                          ProcessedEvent(loc))
            /\ written' = written \cup {loc.event_id}
            /\ deliveredIds' = deliveredIds \cup {loc.event_id}
            /\ Return("Ok", o)
            /\ UNCHANGED failedIds
       ELSE IF BudgetExhausted(retries)
       THEN /\ failedIds' = failedIds \cup {loc.event_id}
            /\ Return("MaxRetries", o)
            /\ UNCHANGED <<journal, written, deliveredIds>>
       ELSE /\ loc' = [loc EXCEPT !.last_error = r.err,
                                  !.retries = retries,
                                  !.backoff_ms = BackoffMs(retries),
                                  !.pending = NoResponse]
            /\ obs' = [o EXCEPT !.sleeps = Append(@, BackoffMs(retries))]
            /\ pc' = "sleep"
            /\ UNCHANGED <<journal, written, deliveredIds, failedIds,
                           outcome>>
    /\ UNCHANGED <<log, committed, offset, store, crashes, sentIds, accepted>>
    /\ UNCHANGED <<reply, oldvars>>

\* tokio::time::sleep(backoff_ms) is over: next turn of the loop
SleepDone ==
    /\ pc = "sleep"
    /\ pc' = "post"
    /\ UNCHANGED <<log, committed, offset, journal, loc, store, crashes, obs,
                   sentIds, outcome, written, accepted, deliveredIds,
                   failedIds>>
    /\ UNCHANGED <<reply, oldvars>>

----------------------------------------------------------------------------
(* The environment of the process *)

\* The consumer is created without enable.auto.commit=false, so the client
\* commits in the background the offset of the last message handed to the
\* application, whatever main() is doing with that message.
AutoCommit ==
    /\ pc # "down"
    /\ committed # offset
    /\ committed' = offset
    /\ UNCHANGED <<log, offset, pc, journal, loc, store, crashes,
                   obs, sentIds, outcome, written, accepted, deliveredIds, failedIds>>
    /\ UNCHANGED <<reply, oldvars>>

\* The process dies: everything it held in memory is gone.
Crash ==
    /\ pc # "down"
    /\ crashes < MaxCrashes
    /\ crashes' = crashes + 1
    /\ pc' = "down"
    /\ journal' = EmptyJournal
    /\ loc' = NoLoc
    /\ reply' = NoReply
    /\ obs' = NoObs
    /\ deliveredIds' = {}
    /\ failedIds' = {}
    /\ UNCHANGED <<log, committed, offset, store, sentIds, outcome,
                   written, accepted>>
    /\ UNCHANGED oldvars

\* main() starts: a new empty journal, a consumer of group
\* webhook-consumer-group that resumes at the committed offset (earliest
\* when nothing was committed).
Restart ==
    /\ pc = "down"
    /\ journal' = EmptyJournal
    /\ offset' = committed
    /\ pc' = "recv"
    /\ UNCHANGED <<log, committed, loc, store, crashes, obs,
                   sentIds, outcome, written, accepted, deliveredIds, failedIds>>
    /\ UNCHANGED <<reply, oldvars>>

\* The payments the events of the log refer to
LogPayments ==
    {ParseUuid(UrlPath(log[p].object_id)).uuid :
        p \in {q \in 1..Len(log) :
                  ParseUuid(UrlPath(log[q].object_id)).ok}}

\* POST /payments of the api service: payment_id = Uuid::new_v4(); the UPDATE
\* finds no row of that id, the INSERT adds the row. No statement of the
\* repository changes or deletes a row afterwards.
ApiCreatePayment ==
    /\ \E payment_id \in RandomUuids \cap LogPayments, amount \in Amounts :
         /\ payment_id \notin DOMAIN store
         /\ store' = [k \in DOMAIN store \cup {payment_id} |->
                         IF k = payment_id THEN amount ELSE store[k]]
    /\ UNCHANGED <<log, committed, offset, pc, journal, loc, crashes, obs,
                   sentIds, outcome, written, accepted, deliveredIds, failedIds>>
    /\ UNCHANGED <<reply, oldvars>>

Next ==
    \/ RecvError
    \/ ErrSleepDone
    \/ RecvNoPayload
    \/ RecvMalformed
    \/ RecvEvent
    \/ HandleCheck
    \/ FetchPayload
    \/ ServePayload
    \/ FetchAnswered
    \/ PostWebhook
    \/ PostAnswered
    \/ SleepDone
    \/ AutoCommit
    \/ Crash
    \/ Restart
    \/ ApiCreatePayment

Spec == Init /\ [][Next]_vars

\* The scheduling of the one task of main(): every await it reaches is
\* answered (the HTTP client has a request timeout, the sleeps end), so a
\* step of the call in progress is taken once it is enabled. consumer.recv()
\* may return errors in between, so the delivery of the next record is
\* strongly fair. Nothing is assumed of crashes, restarts, commits, the
\* creation of payments or the data service (the timeout ends the GET).
FairSpec ==
    /\ Spec
    /\ WF_vars(ErrSleepDone)
    /\ WF_vars(HandleCheck)
    /\ WF_vars(FetchPayload)
    /\ WF_vars(FetchAnswered)
    /\ WF_vars(PostWebhook)
    /\ WF_vars(PostAnswered)
    /\ WF_vars(SleepDone)
    /\ SF_vars(RecvNoPayload)
    /\ SF_vars(RecvMalformed)
    /\ SF_vars(RecvEvent)

TypeOK ==
    /\ pc \in {"recv", "errsleep", "check", "fetch", "getting", "post",
             "await", "sleep", "down"}
    /\ committed \in 0..Len(log)
    /\ offset \in 0..Len(log)
    /\ committed <= offset

----------------------------------------------------------------------------
(* The old architecture: create_payment queues a webhook event in memory,  *)
(* webhook_worker sends each once.                                          *)

\* mpsc::channel(1000)
ChannelCapacity == 1000

\* The consumer of the new architecture, not running
ConsumerIdle ==
    /\ log = << >>
    /\ committed = 0
    /\ offset = 0
    /\ pc = "down"
    /\ journal = EmptyJournal
    /\ loc = NoLoc
    /\ store = NoRows
    /\ reply = NoReply
    /\ crashes = 0
    /\ obs = NoObs
    /\ sentIds = [p \in Positions |-> {}]
    /\ outcome = [p \in Positions |-> {}]
    /\ written = {}
    /\ accepted = {}
    /\ deliveredIds = {}
    /\ failedIds = {}

OldInit == ConsumerIdle /\ OldStart

\* POST /payments: the payment is built and its WebhookEvent is sent on the
\* channel (send waits while the channel is full)
CreatePayment ==
    /\ worker # "down"
    /\ created < MaxPayments
    /\ Len(channel) < ChannelCapacity
    /\ created' = created + 1
    /\ channel' = Append(channel, created + 1)
    /\ UNCHANGED <<worker, current, inflight, oldCrashes, attempts,
                   oldDelivered, failedOnce, dropped>>
    /\ UNCHANGED newvars

\* while let Some(event) = receiver.recv().await
WorkerRecv ==
    /\ worker = "idle"
    /\ channel # << >>
    /\ current' = Head(channel)
    /\ channel' = Tail(channel)
    /\ worker' = "sending"
    /\ UNCHANGED <<inflight, created, oldCrashes, attempts, oldDelivered,
                   failedOnce, dropped>>
    /\ UNCHANGED newvars

\* send_webhook of the old service: Ok(()) unless send() fails or the
\* status is 4xx or 5xx
OldSendWebhook(resp) == resp.err = "" /\ ~IsErrorStatus(resp.status)

\* send_webhook(..).await up to its await: the one POST of the event leaves;
\* the exchange ends in an answer of the endpoint or a transport error,
\* which the worker has yet to read
WorkerSend ==
    /\ worker = "sending"
    /\ \E resp \in Responses :
         /\ inflight' = resp
         /\ oldDelivered' = IF resp.err = "" /\ resp.status \notin 400..599
                             THEN oldDelivered \cup {current}
                             ELSE oldDelivered
    /\ attempts' = [attempts EXCEPT ![current] = @ + 1]
    /\ worker' = "awaiting"
    /\ UNCHANGED <<channel, current, created, oldCrashes, failedOnce, dropped>>
    /\ UNCHANGED newvars

\* WorkerAnswered, were an event whose POST failed sent on the channel again
WorkerAnswered_requeue ==
    /\ worker = "awaiting"
    /\ IF OldSendWebhook(inflight)
       THEN UNCHANGED <<failedOnce, channel>>
       ELSE /\ failedOnce' = failedOnce \cup {current}
            /\ channel' = Append(channel, current)
    /\ inflight' = NoResponse
    /\ worker' = "pause"
    /\ UNCHANGED <<current, created, oldCrashes, attempts, oldDelivered,
                   dropped>>
    /\ UNCHANGED newvars

\* match send_webhook(..).await: the Ok arm and the Err arm only log
WorkerAnswered ==
    /\ worker = "awaiting"
    /\ failedOnce' = IF OldSendWebhook(inflight)
                      THEN failedOnce
                      ELSE failedOnce \cup {current}
    /\ inflight' = NoResponse
    /\ worker' = "pause"
    /\ UNCHANGED <<channel, current, created, oldCrashes, attempts,
                   oldDelivered, dropped>>
    /\ UNCHANGED newvars

\* tokio::time::sleep(10 ms), then the next turn of the while loop
WorkerPause ==
    /\ worker = "pause"
    /\ worker' = "idle"
    /\ current' = 0
    /\ UNCHANGED <<channel, inflight, created, oldCrashes, attempts,
                   oldDelivered, failedOnce, dropped>>
    /\ UNCHANGED newvars

\* The events of a sequence
Range(q) == {q[i] : i \in 1..Len(q)}

\* The process dies: the channel and the worker's event are gone with it
OldCrash ==
    /\ worker # "down"
    /\ oldCrashes < MaxCrashes
    /\ oldCrashes' = oldCrashes + 1
    /\ dropped' = dropped \cup Range(channel)
                     \cup (IF worker \in {"sending", "awaiting"}
                           THEN {current} ELSE {})
    /\ channel' = << >>
    /\ current' = 0
    /\ inflight' = NoResponse
    /\ worker' = "down"
    /\ UNCHANGED <<created, attempts, oldDelivered, failedOnce>>
    /\ UNCHANGED newvars

\* main() of the old service starts: a new empty channel, a new worker
OldRestart ==
    /\ worker = "down"
    /\ channel' = << >>
    /\ worker' = "idle"
    /\ UNCHANGED <<current, inflight, created, oldCrashes, attempts,
                   oldDelivered, failedOnce, dropped>>
    /\ UNCHANGED newvars

OldNext ==
    \/ CreatePayment
    \/ WorkerRecv
    \/ WorkerSend
    \/ WorkerAnswered
    \/ WorkerPause
    \/ OldCrash
    \/ OldRestart

OldSpec == OldInit /\ [][OldNext]_vars

----------------------------------------------------------------------------
(* Properties *)

InCall == pc \in {"check", "fetch", "getting", "post", "await", "sleep"}

\* C1: a call of handle_event whose journal key this process has already
\* delivered makes no enrichment GET and no delivery POST and returns Ok:
\* it is either still at its journal check or has returned Ok.
C1_ReplayOfDeliveredIsNoOp ==
    obs.deliveredBefore =>
        /\ obs.gets = 0
        /\ obs.posts = 0
        /\ IF pc = "check" THEN obs.result = "running" ELSE obs.result = "Ok"

\* A replay of a delivered key has returned.
C1_Witness ==
    /\ obs.deliveredBefore
    /\ obs.result = "Ok"
    /\ pc = "recv"
    /\ JournalHas(journal, obs.event_id)

\* C2: all the POSTs of one call of handle_event, the first attempt and the
\* retries, carry one and the same event_id.
C2_OneEventIdPerCall == Cardinality(obs.ids) <= 1

\* A call for an object whose id is a UUID in upper case has made its third
\* POST.
C2_Witness ==
    /\ obs.event_id = "evt_AB12"
    /\ obs.posts = 3
    /\ obs.ids = {"ab12"}

\* C3: whatever the object_id, all the POSTs ever made for the event at one
\* log position, over retries, replays and restarts, carry one event_id.
C3_OneEventIdPerEvent ==
    \A p \in Positions : Cardinality(sentIds[p]) <= 1

\* C4: while handle_event is running for the event at a log position, the
\* committed offset has not passed that position.
C4_CommitNotBeforeReturn == InCall => committed < loc.pos

\* C5, as what is left when the consumer has caught up with the log: every
\* event of the log has had handle_event return for it (delivered or
\* failed), none was skipped by a crash.
C5_NoEventDropped ==
    (pc = "recv" /\ offset = Len(log)) =>
        \A p \in 1..Len(log) :
            log[p].kind = "event" => outcome[p] # {}

\* C6: in a running process the journal holds every key ever written to it,
\* before a crash or after, and no POST is made for such a key.
C6_JournalSurvivesRestart ==
    /\ pc # "down" => written \subseteq DOMAIN journal
    /\ (obs.result = "running" /\ obs.posts > 0) => obs.event_id \notin written

\* C7: a call all of whose POSTs met a transport error or a 4xx/5xx status
\* goes on (backing off, posting again) while it has made fewer than 3
\* POSTs, and at the third POST it returns the permanent failure: 3 POSTs,
\* no more and no fewer.
C7_ExactlyMaxRetriesPosts ==
    (obs.posts > 0 /\ obs.refused = obs.posts) =>
        /\ obs.posts <= 3
        /\ obs.posts < 3 => (obs.result = "running" /\ pc \in {"sleep", "post"})
        /\ obs.posts = 3 => (obs.result = "MaxRetries" /\ ~InCall)

\* A call has permanently failed after three refused POSTs.
C7_Witness ==
    /\ obs.result = "MaxRetries"
    /\ obs.posts = 3
    /\ obs.refused = 3
    /\ obs.sleeps = <<1000, 2000>>

\* C8: when a call has returned the permanent failure, the journal holds an
\* entry for its key.
C8_FailureIsJournaled ==
    obs.result = "MaxRetries" => JournalHas(journal, obs.event_id)

\* C9: a call whose journal key has permanently failed before in this
\* process makes no enrichment GET and no delivery POST.
C9_ReplayOfFailedIsNoOp ==
    obs.failedBefore => (obs.gets = 0 /\ obs.posts = 0)

\* C10: the payment a POST carries was fetched in the same turn of the retry
\* loop: a call has made a GET of its own for every POST it has made.
C10_FreshPayloadPerAttempt == obs.posts <= obs.gets

\* C11: a backoff sleep of one call does not hold up the ingestion loop:
\* while a call sleeps and the log has a further record, main() can receive
\* that record.
C11_BackoffDoesNotBlockIngestion ==
    (pc = "sleep" /\ offset < Len(log)) =>
        ENABLED (RecvEvent \/ RecvMalformed \/ RecvNoPayload)

\* C12: a record that cannot be decoded does not stop the loop: when main()
\* is about to receive a malformed record at position p and an event follows
\* at p + 1, that event is eventually handed to handle_event (unless the
\* process dies first).
C12_MalformedDoesNotStopLoop ==
    \A p \in 1..(MaxLog - 1) :
        (/\ pc = "recv" /\ offset = p - 1 /\ Len(log) > p
         /\ log[p].kind = "malformed" /\ log[p + 1].kind = "event")
            ~> ((pc = "check" /\ loc.pos = p + 1) \/ pc = "down")

C12_Witness ==
    /\ pc = "check" /\ loc.pos = 2 /\ log[1].kind = "malformed"
    /\ crashes = 0

\* C13: a permanent failure does not block the stream: once handle_event
\* has returned the max-retries error for the event at position p and an
\* event follows at p + 1, that event is eventually handed to handle_event
\* (unless the process dies first).
C13_FailureDoesNotBlockStream ==
    \A p \in 1..(MaxLog - 1) :
        (/\ obs.result = "MaxRetries" /\ obs.pos = p /\ offset = p
         /\ Len(log) > p /\ log[p + 1].kind = "event")
            ~> ((pc = "check" /\ loc.pos = p + 1) \/ pc = "down")

C13_Witness ==
    /\ pc = "check" /\ loc.pos = 2 /\ outcome[1] = {"MaxRetries"}
    /\ crashes = 0

\* C14 as stated: after a delivery that followed k refusals the journal
\* entry records k + 1, the number of POSTs made.
C14_AttemptCountIsPosts ==
    (obs.result = "Ok" /\ obs.posts > 0) =>
        /\ JournalHas(journal, obs.event_id)
        /\ journal[obs.event_id].retries = obs.posts

\* C14, amended: after a delivery that followed k refusals (0 <= k < 3)
\* exactly k + 1 POSTs were made, and the journal entry records retries = k,
\* the number of refused POSTs (0 for a first-attempt success, 2 for two
\* refusals then success).
C14_RetriesIsRefusals ==
    (obs.result = "Ok" /\ obs.posts > 0) =>
        /\ obs.refused < max_retries
        /\ obs.posts = obs.refused + 1
        /\ JournalHas(journal, obs.event_id)
        /\ journal[obs.event_id].retries = obs.refused

C14_Witness ==
    /\ obs.result = "Ok" /\ obs.posts = 3 /\ obs.refused = 2
    /\ journal[obs.event_id].retries = 2

\* C15: the n-th refused POST of a call, n < 3, is followed by a sleep of
\* 1000 * 2^(n-1) ms (1000 after the first, 2000 after the second) before the
\* next POST, and the third refused POST by no sleep at all.
C15_BackoffSchedule ==
    /\ Len(obs.sleeps) = IF obs.refused >= 3 THEN 2 ELSE obs.refused
    /\ \A n \in 1..Len(obs.sleeps) : obs.sleeps[n] = 1000 * (2 ^ (n - 1))
    /\ pc = "sleep" =>
          /\ obs.refused \in 1..2
          /\ loc.backoff_ms = IF obs.refused = 1 THEN 1000 ELSE 2000
    /\ obs.result = "MaxRetries" => obs.sleeps = <<1000, 2000>>

C15_Witness ==
    /\ obs.result = "Ok" /\ obs.refused = 2 /\ obs.sleeps = <<1000, 2000>>

\* C16: a failed enrichment fetch is retried under the budget of the
\* delivery: a call ends with the enrichment error only after max_retries
\* GETs.
C16_EnrichmentFailureIsRetried ==
    obs.result = "EnrichError" => obs.gets >= max_retries

\* The number of records main() found undecodable in a row, up to and
\* including the record at position n of log l
RECURSIVE ConsecutiveMalformed(_, _)
ConsecutiveMalformed(l, n) ==
    IF n = 0 \/ l[n].kind # "malformed"
    THEN 0
    ELSE 1 + ConsecutiveMalformed(l, n - 1)

\* C17: the loop of main() stops with a fatal condition once a bounded
\* number of malformed records have been received in a row; here the bound
\* is the longest run the log can hold.
C17_FatalAfterMalformedRun ==
    (crashes = 0 /\ ConsecutiveMalformed(log, offset) >= MaxLog) =>
        pc \notin {"recv", "errsleep"}

\* C18: the journal is written only once the outcome of the POST is known:
\* in every state, each key of the journal has had a POST that the endpoint
\* answered without error status (what send_webhook counts as success), and
\* a call whose POSTs were all refused has written nothing.
C18_JournalOnlyAfterSuccess ==
    /\ DOMAIN journal \subseteq accepted
    /\ (obs.posts > 0 /\ obs.refused = obs.posts) =>
          ~JournalHas(journal, obs.event_id)

C18_Witness ==
    /\ JournalHas(journal, "evt_AB12") /\ "evt_AB12" \in accepted
    /\ obs.event_id = "evt_AB12" /\ obs.refused = 1 /\ obs.posts = 2

\* C19: the journal holds at most one entry per journal key, and no step of
\* a living process overwrites, changes or removes an entry that is in the
\* journal (every entry records a delivery).
C19_DeliveredEntryImmutable ==
    [][pc' # "down" =>
         /\ \A k \in DOMAIN journal :
               k \in DOMAIN journal' /\ journal'[k] = journal[k]
         /\ \A k1, k2 \in DOMAIN journal' :
               journal'[k1].event_id = journal'[k2].event_id => k1 = k2]_vars

C19_Witness ==
    /\ Cardinality(DOMAIN journal) = 2
    /\ journal["evt_AB12"].retries = 1 /\ obs.event_id = "evt_ab12?v=1"

\* C20: no two handlings are in flight at once, so none of one journal key
\* are: a call of handle_event starts only when no call is in progress, and
\* a step writes the journal only for the key of the call in progress, which
\* the journal did not hold (no second write, no second delivery).
C20_NoOverlappingHandlings ==
    [][/\ (loc'.pos # 0 /\ loc'.pos # loc.pos) =>
             (pc = "recv" /\ loc = NoLoc)
       /\ (journal' # journal /\ pc' # "down") =>
             /\ pc = "await"
             /\ ~JournalHas(journal, loc.event_id)
             /\ DOMAIN journal' = DOMAIN journal \cup {loc.event_id}]_vars

C20_Witness ==
    /\ log[1].object_id = "AB12" /\ outcome[1] = {"MaxRetries"}
    /\ obs.event_id = "evt_AB12" /\ obs.pos = 2 /\ obs.result = "Ok"
    /\ obs.posts = 1 /\ crashes = 0

\* C21: events are handled strictly in log order: a step that makes the
\* enrichment GET or a delivery POST for the event at one position is never
\* taken once a POST was made for an event at a later position.
C21_StrictLogOrder ==
    [][(obs'.gets = obs.gets + 1 \/ obs'.posts = obs.posts + 1) =>
          \A q \in Positions : q > loc.pos => sentIds[q] = {}]_vars

\* C22: a POST counts as delivered exactly when the endpoint answered it
\* with a 2xx status: after a POST the call has returned Ok if and only if
\* the status of that POST was in 200..299.
C22_SuccessIffStatus2xx ==
    obs.posts > 0 =>
        (obs.result = "Ok" <=> obs.postStatus \in 200..299)

\* C23: a GET that times out or is answered with a non-success status makes
\* the fetch fail, and no POST carries a payload taken from such an answer:
\* a call that has POSTed got status 2xx from its GET, and a call whose GET
\* did not get 2xx has made no POST: it has yet to read the outcome of the
\* GET or has ended with the enrichment error.
C23_NoPostFromFailedEnrichment ==
    /\ obs.posts > 0 => obs.getStatus \in 200..299
    /\ (obs.gets > 0 /\ obs.getStatus \notin 200..299) =>
          /\ obs.posts = 0
          /\ \/ pc = "getting" /\ obs.result = "running"
             \/ obs.result = "EnrichError" /\ ~InCall

C23_Witness ==
    /\ obs.result = "EnrichError" /\ obs.getStatus = 404
    /\ obs.gets = 1 /\ obs.posts = 0 /\ sentIds[obs.pos] = {}

\* C24: in the old service every webhook event gets at most one POST, the
\* POSTs are made in the order the events were queued, and an event whose
\* POST failed, or that was in the channel or held by the worker (its POST
\* not made, or made and not yet answered) when the process died, gets no
\* POST and no delivery afterwards.
C24_OneAttemptNoRecovery ==
    [][/\ \A e \in WebhookEvents :
            /\ attempts'[e] <= 1
            /\ attempts'[e] > attempts[e] =>
                  \A f \in WebhookEvents : f > e => attempts[f] = 0
            /\ e \in failedOnce \cup dropped =>
                  /\ attempts'[e] = attempts[e]
                  /\ (e \in oldDelivered' <=> e \in oldDelivered)
       /\ failedOnce' \cap oldDelivered' = {}]_vars

\* The POST of event 1 failed, the process died while the POST of event 2
\* was awaited and event 3 was in the channel, and it runs again.
C24_Witness ==
    /\ 1 \in failedOnce /\ dropped = {2, 3}
    /\ attempts = <<1, 1, 0>> /\ worker = "idle" /\ channel = << >>

\* C25: the journal key comes from object_id alone, so once the handling of
\* an event of an object has returned Ok, no POST is made for any later
\* event of the log with the same object_id, whatever its event type.
C25_SameObjectSuppressed ==
    [][obs'.posts = obs.posts + 1 =>
          ~\E p \in 1..(loc.pos - 1) :
              /\ log[p].kind = "event"
              /\ log[p].object_id = loc.event.object_id
              /\ "Ok" \in outcome[p]]_vars

\* The steps a call of handle_event can still take, at most: the journal
\* check, the GET, the reading of its answer, and for each turn of the
\* retry loop left a POST, the reading of its answer and, but for the last,
\* a sleep
CallRank ==
    IF pc = "check" THEN 3 * max_retries + 3
    ELSE IF pc = "fetch" THEN 3 * max_retries + 2
    ELSE IF pc = "getting" THEN 3 * max_retries + 1
    ELSE IF pc = "post" THEN 3 * (max_retries - loc.retries)
    ELSE IF pc = "await" THEN 3 * (max_retries - loc.retries) - 1
    ELSE IF pc = "sleep" THEN 3 * (max_retries - loc.retries) + 1
    ELSE 0

\* C26: every call of handle_event ends, whatever the enrichment service
\* and the endpoint answer: each step of a call (an HTTP call returning or
\* timing out, a sleep ending) that leaves it in progress lowers CallRank,
\* which is never negative, so a call takes at most 3 * max_retries + 3
\* steps; it makes at most max_retries POSTs and at most max_retries - 1
\* backoff sleeps; and a POST that was not refused is its last: the call
\* is reading its answer or has returned Ok with it.
C26_HandleEventTerminates ==
    [][/\ (InCall /\ InCall' /\ <<pc, loc>>' # <<pc, loc>>) =>
             CallRank' < CallRank
       /\ CallRank' >= 0
       /\ obs'.posts <= max_retries
       /\ Len(obs'.sleeps) <= max_retries - 1
       /\ obs'.posts > obs'.refused =>
             /\ obs'.posts = obs'.refused + 1
             /\ \/ pc' = "await"
                \/ obs'.result = "Ok" /\ ~InCall']_vars

C26_Witness ==
    /\ obs.result = "Ok" /\ obs.posts = 2 /\ obs.refused = 1
    /\ Len(obs.sleeps) = 1 /\ pc = "recv"

====
